---- MODULE Spec2Model ----
(***************************************************************************)
(* Model of the two tokenizer engines of lexr-parsr:                       *)
(*   - lex_rule!  (src/lexr/src/lex_rule.rs): the composable engine, whose  *)
(*     cursor (LexBuf: source, idx, line, col, empty) can be shared by a    *)
(*     host engine "H" and a sub-engine "S";                                *)
(*   - lexer!     (src/src/lex.rs): the simple engine "L", which owns its   *)
(*     fields input, input_iter, idx, line, col, empty.                     *)
(* A text is a sequence of characters; a character is a short string and    *)
(* has a UTF-8 width in bytes.  Regex match lengths are in BYTES, as        *)
(* Match::end() is; the models of the patterns compute the number of        *)
(* matched characters and the engines convert it to bytes.                  *)
(***************************************************************************)
EXTENDS Integers, Sequences, FiniteSets, TLC

\* ------------------------------------------------------------------ bounds
\* Longest generic input text, in characters.
MaxLen == 3

\* ------------------------------------------------------------- characters
\* "sp" is ' ', "nl" is '\n', "E" is a two-byte character such as U+00E9.
Digits == {"1", "2", "3"}
Letters == {"a", "b", "c"}
Spaces == {"sp", "nl"}
Wide == {"E"}

\* The characters generic inputs are drawn from: a digit, a letter, a
\* whitespace character that is also the newline, and a two-byte character.
BaseChars == {"1", "a", "nl", "E"}

\* UTF-8 width of a character (str::len counts bytes, chars() yields chars).
Width(c) == IF c \in Wide THEN 2 ELSE 1

RECURSIVE Bytes(_)
\* str::len(): the byte length of a text.
Bytes(s) == IF s = <<>> THEN 0 ELSE Width(Head(s)) + Bytes(Tail(s))

\* The text left after its first k characters.
Drop(s, k) == SubSeq(s, k + 1, Len(s))

\* The first k characters of a text.
Take(s, k) == SubSeq(s, 1, k)

\* The text left whole, as before a match is cut off.
KeepSlice(s, n) == s

RECURSIVE ByteSlice(_, _)
\* &s[n..]: the text from byte offset n on (n is on a character boundary
\* whenever it is a sum of match lengths).
ByteSlice(s, n) ==
    IF n <= 0 \/ s = <<>> THEN s ELSE ByteSlice(Tail(s), n - Width(Head(s)))

RECURSIVE PrefixIn(_, _)
\* Number of leading characters of s that belong to class cls (a greedy
\* repetition of a character class).
PrefixIn(s, cls) ==
    IF s # <<>> /\ Head(s) \in cls THEN 1 + PrefixIn(Tail(s), cls) ELSE 0

\* --------------------------------------------------------------- patterns
\* The patterns of the model.  "wildcard", "eof" and "ws" are the sentinel
\* keywords _, eof and ws; the others are user patterns, compiled with a
\* leading "^":  wsplus = \s+  digits = [0-9]+  word = [a-zA-Z]+
\* digitsStar = [0-9]*  (a pattern that can match zero-length text).

\* Regex::find on the anchored pattern: the number of characters matched at
\* the start of text s, or -1 when the pattern does not match there.
MatchChars(pat, s) ==
    CASE pat = "wildcard"   -> IF s # <<>> THEN 1 ELSE -1
      [] pat = "eof"        -> IF s = <<>> THEN 0 ELSE -1
      [] pat = "ws"         -> IF s # <<>> /\ Head(s) \in Spaces THEN 1 ELSE -1
      [] pat = "wsplus"     -> IF PrefixIn(s, Spaces) > 0 THEN PrefixIn(s, Spaces) ELSE -1
      [] pat = "digits"     -> IF PrefixIn(s, Digits) > 0 THEN PrefixIn(s, Digits) ELSE -1
      [] pat = "word"       -> IF PrefixIn(s, Letters) > 0 THEN PrefixIn(s, Letters) ELSE -1
      [] pat = "digitsStar" -> PrefixIn(s, Digits)
      [] OTHER              -> -1

\* Whether the pattern matches at the start of s.
Matches(pat, s) == MatchChars(pat, s) >= 0

\* mat.end(): the BYTE length of the match (only used when it matches).
MatchEnd(pat, s) == Bytes(Take(s, MatchChars(pat, s)))

\* ---------------------------------------------------------------- rules
\* What a rule's closure does: "tok" evaluates to a token, "skip" is
\* `continue`; "subtok" and "subskip" first run one next() of the sub-engine
\* on the shared handle (the $src_id argument) and then do the same.

Rule(p, a) == [pat |-> p, act |-> a]

\* The index of the last rule of the table whose pattern matches (0: none).
LastMatch(tbl, s) ==
    LET hits == {i \in 1..Len(tbl) : Matches(tbl[i].pat, s)}
    IN IF hits = {} THEN 0 ELSE CHOOSE i \in hits : \A j \in hits : j <= i

\* The rule cascade $( if let Some(mat) = regex.find(..) { .. } )*: the index
\* of the first rule of the table whose pattern matches (0: none).
FirstMatch(tbl, s) ==
    LET hits == {i \in 1..Len(tbl) : Matches(tbl[i].pat, s)}
    IN IF hits = {} THEN 0 ELSE CHOOSE i \in hits : \A j \in hits : i <= j

\* ------------------------------------------------------------- positions
RECURSIVE Walk(_, _, _)
\* The advance loop's line/column bookkeeping over the first n characters of
\* s, starting at position p = <<line, col>>: '\n' starts a new line,
\* anything else moves one column.
Walk(s, n, p) ==
    IF n = 0 \/ s = <<>> THEN p
    ELSE Walk(Tail(s), n - 1,
              IF Head(s) = "nl" THEN <<p[1] + 1, 1>> ELSE <<p[1], p[2] + 1>>)


\* The cursor position once the whole advance loop has run.
EndPosAfter(s, length, p) == Walk(s, length, p)

\* The position recorded in `end` by the advance loop: the cursor position
\* saved at iteration i = length - 1, that is before the character with
\* index length - 1 is consumed (start itself when the loop never runs).
EndPos(s, length, p) == IF length = 0 THEN p ELSE Walk(s, length - 1, p)

\* ----------------------------------------------------------------- tables
\* The rule table of the doc example of lex_rule! (without its comment rule).
DocTable ==
    << Rule("wsplus", "skip"), Rule("digits", "tok"),
       Rule("word", "tok"), Rule("eof", "tok") >>

\* The input of the doc example, "123 abc".
DocInput == <<"1", "2", "3", "sp", "a", "b", "c">>

\* All tables of one or two rules over the given rules.
TablesOver(rules) ==
    {<<r>> : r \in rules} \cup {<<r1, r2>> : r1 \in rules, r2 \in rules}

\* Rules of a stand-alone lex_rule! engine: closures that yield a token or skip.
PlainRules ==
    {Rule(p, a) : p \in {"wildcard", "eof", "ws", "digits", "word", "digitsStar"},
                  a \in {"tok", "skip"}}

PlainTables == TablesOver(PlainRules) \cup {DocTable}

RECURSIVE TextsUpTo(_, _)
\* All texts of at most n characters over the alphabet cs.
TextsUpTo(cs, n) ==
    IF n = 0 THEN {<<>>}
    ELSE LET shorter == TextsUpTo(cs, n - 1)
         IN shorter \cup {Append(s, c) : s \in shorter, c \in cs}

Inputs == TextsUpTo(BaseChars, MaxLen) \cup {DocInput, <<"1", "2", "a">>}

\* Caps on the two histories; only a scan that keeps matching zero-length
\* text reaches them (every other match consumes a character, so a scan has
\* at most Len(input) + 1 matches).
OutCap(text) == Len(text) + 2
SpanCap(text) == Len(text) + 3

\* ------------------------------------------------------------------ state
VARIABLES
    input,       \* the original text (never changes)
    table,       \* the rule table of engine H (and of engine L)
    subTable,    \* the rule table of engine S
    source,      \* LexBuf.source: the remaining text
    idx,         \* LexBuf.idx / lexer!.idx: the stored byte index
    line,        \* LexBuf.line / lexer!.line
    col,         \* LexBuf.col / lexer!.col
    empty,       \* LexBuf.empty / lexer!.empty
    input_iter,  \* lexer!.input_iter: the characters not yet iterated
    pc,          \* per engine: "idle", "loop", "action", "await"
    start_idx,   \* per engine: the local start_idx of the running next()
    pending,     \* the (token, SrcLoc) of H's match while its closure runs
    out,         \* the items returned by next() so far, in order
    spans,       \* every match so far (emitted or skipped), in match order
    result,      \* per engine: what its last next() call ended with
    tried        \* how many rules the latest loop iteration ran regex.find for

vars == << input, table, subTable, source, idx, line, col, empty, input_iter,
           pc, start_idx, pending, out, spans, result, tried >>

Engines == {"H", "S", "L"}

NoItem == [eng |-> "", rule |-> 0, pat |-> "", text |-> <<>>,
           start |-> <<0, 0>>, end |-> <<0, 0>>, bytes |-> <<>>]

\* What a next() call ended with: kind is "some", "none", "unexpected" (the
\* panic "Unexpected character c at line:col:idx") or "unwrap" (the panic of
\* Option::unwrap on a None in the advance loop); "init" before any call.
Outcome(k, c, l, cl, i) == [kind |-> k, c |-> c, line |-> l, col |-> cl, idx |-> i]
Plain(k) == Outcome(k, "", 0, 0, 0)

\* LexBuf::from(&str) / name::new(input): the cursor at the start of the text.
InitCursor ==
    /\ idx = 0
    /\ line = 1
    /\ col = 1
    /\ empty = FALSE
    /\ pc = [e \in Engines |-> "idle"]
    /\ start_idx = [e \in Engines |-> 0]
    /\ pending = NoItem
    /\ out = <<>>
    /\ spans = <<>>
    /\ result = [e \in Engines |-> Plain("init")]
    /\ tried = 0

\* One lex_rule! engine on its own cursor.
Init ==
    /\ input \in Inputs
    /\ table \in PlainTables
    /\ subTable = <<>>
    /\ source = input
    /\ input_iter = <<>>
    /\ InitCursor

TableOf(e) == IF e = "S" THEN subTable ELSE table

\* An unwrap panic leaves line/col half advanced; the scan is not resumed
\* after it.
Crashed == \E e \in Engines : result[e].kind = "unwrap"

\* --------------------------------------------------- lex_rule!: next()
\* Entry of next(): `let start_idx = *self.buf.idx.borrow();` (read once,
\* before the loop).
Enter(e) ==
    /\ start_idx' = [start_idx EXCEPT ![e] = idx]
    /\ pc' = [pc EXCEPT ![e] = "loop"]

\* A caller invokes next() on engine e while no engine is running.
Call(e) ==
    /\ \A f \in Engines : pc[f] = "idle"
    /\ ~Crashed
    /\ Len(out) < OutCap(input)
    /\ Enter(e)
    /\ UNCHANGED << input, table, subTable, source, idx, line, col, empty,
                    input_iter, pending, out, spans, result, tried >>

\* The (token, SrcLoc) of a match of rule r by engine e on the text s.
Item(e, r, s) ==
    LET pat == TableOf(e)[r].pat
        length == MatchEnd(pat, s)
        start == <<line, col>>
    IN [eng |-> e, rule |-> r, pat |-> pat,
        text |-> Take(s, MatchChars(pat, s)),
        start |-> start, end |-> EndPos(s, length, start),
        bytes |-> <<start_idx[e], start_idx[e] + length>>]

\* What the model remembers of a match: where it really was in the input
\* (at: byte offset, cpos: character offset, n: characters matched) next to
\* the span the engine computed.
Span(e, r, s) ==
    LET it == Item(e, r, s)
    IN [eng |-> e, rule |-> r, pat |-> it.pat,
        act |-> TableOf(e)[r].act,
        at |-> Bytes(input) - Bytes(s),
        cpos |-> Len(input) - Len(s),
        n |-> Len(it.text),
        start |-> it.start, end |-> it.end, bytes |-> it.bytes]

\* The number of rules whose regex.find runs in one pass over the cascade:
\* the rules up to and including the first that matches, or all of them.
Evaluated(tbl, s) ==
    IF FirstMatch(tbl, s) = 0 THEN Len(tbl) ELSE FirstMatch(tbl, s)

\* `if src.len() == 0 { *self.buf.empty.borrow_mut() = true; }`: whether the
\* iteration sets the flag, given the remaining text.
MarkEmptyNever(s) == FALSE
MarkEmpty(s) == s = <<>>

\* `self.buf.source.borrow().chars().next()` in the panic branch: the first
\* character is read from a fresh iterator, the remaining text stays as is.
PopRest(s) == Tail(s)
PeekRest(s) == s

\* `if *self.buf.empty.borrow() { break }`: an iteration that finds the flag
\* set leaves the loop before any rule is tried.
EmptyBreakNever == FALSE
EmptyBreak == empty

\* Whether the closure evaluates to a token, so that next() returns
\* Some((token, SrcLoc)); otherwise it is `continue` and the loop goes on.
YieldsAlways(act) == TRUE
Yields(act) == act \in {"tok", "subtok"}

\* Whether the closure uses the shared handle to run the sub-engine.
RunsSub(act) == act \in {"subtok", "subskip"}

\* next() returns None on engine e.
ReturnNone(e) ==
    /\ pc' = [pc EXCEPT ![e] = "idle"]
    /\ result' = [result EXCEPT ![e] = Plain("none")]

\* next() panics on the running engine: the panic unwinds through every
\* next() on the stack (a sub-engine's panic ends its host's call too).
Panic(o) ==
    /\ pc' = [f \in Engines |-> "idle"]
    /\ result' = [f \in Engines |-> IF pc[f] = "idle" THEN result[f] ELSE o]
    /\ pending' = NoItem

\* One iteration of the loop of next() (lines 77-123) and, when it breaks,
\* the code after the loop (lines 125-131).
Iterate(e) ==
    /\ pc[e] = "loop"
    /\ Len(spans) < SpanCap(input)
    /\ LET r == FirstMatch(TableOf(e), source)
           pat == TableOf(e)[r].pat
           act == TableOf(e)[r].act
           length == MatchEnd(pat, source)
           after == Walk(source, length, <<line, col>>)
           flag == empty \/ MarkEmpty(source)
       IN
       IF EmptyBreak THEN
            \* break; `!empty` is false after the loop: None
            /\ ReturnNone(e)
            /\ tried' = 0
            /\ UNCHANGED << source, idx, line, col, empty, pending, out, spans >>
       ELSE IF r = 0 /\ (flag \/ source = <<>>) THEN
            \* no rule matches and the flag is set (or nothing is left to
            \* name in the panic): break, None
            /\ empty' = flag
            /\ ReturnNone(e)
            /\ tried' = Evaluated(TableOf(e), source)
            /\ UNCHANGED << source, idx, line, col, pending, out, spans >>
       ELSE IF r = 0 THEN
            \* no rule matches non-empty text: panic!("Unexpected character")
            /\ Panic(Outcome("unexpected", Head(source), line, col, idx))
            /\ source' = PeekRest(source)
            /\ empty' = flag
            /\ tried' = Evaluated(TableOf(e), source)
            /\ UNCHANGED << idx, line, col, out, spans >>
       ELSE IF length > Len(source) THEN
            \* the advance loop runs `length` (bytes) times over chars():
            \* source_iter.next().unwrap() panics when the characters run out
            /\ line' = Walk(source, Len(source), <<line, col>>)[1]
            /\ col' = Walk(source, Len(source), <<line, col>>)[2]
            /\ Panic(Plain("unwrap"))
            /\ empty' = flag
            /\ tried' = r
            /\ UNCHANGED << source, idx, out, spans >>
       ELSE
            /\ empty' = flag
            /\ tried' = r
            /\ line' = after[1]
            /\ col' = after[2]
            /\ source' = ByteSlice(source, length)
            /\ idx' = start_idx[e] + length
            /\ spans' = Append(spans, Span(e, r, source))
            /\ IF RunsSub(act) THEN
                    \* the closure takes the shared handle and runs
                    /\ pending' = Item(e, r, source)
                    /\ pc' = [pc EXCEPT ![e] = "action"]
                    /\ UNCHANGED << out, result >>
               ELSE IF Yields(act) THEN
                    /\ out' = Append(out, Item(e, r, source))
                    /\ pc' = [pc EXCEPT ![e] = "idle"]
                    /\ result' = [result EXCEPT ![e] = Plain("some")]
                    /\ UNCHANGED pending
               ELSE
                    \* `continue`: the loop starts over, start_idx is kept
                    UNCHANGED << out, pc, result, pending >>
    /\ UNCHANGED << input, table, subTable, input_iter, start_idx >>

\* The closure of H's matched rule calls next() on the sub-engine, which
\* was built on the shared handle.
SubCall ==
    /\ pc["H"] = "action"
    /\ pc["S"] = "idle"
    /\ start_idx' = [start_idx EXCEPT !["S"] = idx]
    /\ pc' = [pc EXCEPT !["H"] = "await", !["S"] = "loop"]
    /\ UNCHANGED << input, table, subTable, source, idx, line, col, empty,
                    input_iter, pending, out, spans, result, tried >>

\* The sub-engine's next() has returned: H's closure ends with its token
\* (next() returns it with the SrcLoc computed before the closure ran) or
\* with `continue`.
ActionReturn ==
    /\ pc["H"] = "await"
    /\ pc["S"] = "idle"
    /\ IF Yields(table[pending.rule].act) THEN
            /\ out' = Append(out, pending)
            /\ pc' = [pc EXCEPT !["H"] = "idle"]
            /\ result' = [result EXCEPT !["H"] = Plain("some")]
       ELSE
            /\ pc' = [pc EXCEPT !["H"] = "loop"]
            /\ UNCHANGED << out, result >>
    /\ pending' = NoItem
    /\ UNCHANGED << input, table, subTable, source, idx, line, col, empty,
                    input_iter, start_idx, spans, tried >>

\* A stand-alone lex_rule! engine.
Next == Call("H") \/ Iterate("H")

Spec == Init /\ [][Next]_vars

\* Tables that hold the rule `eof => token` and in which no other rule can
\* match the empty text.
EofOnlyOnEmpty(tbl) ==
    /\ \E i \in 1..Len(tbl) : tbl[i] = Rule("eof", "tok")
    /\ \A i \in 1..Len(tbl) :
            Matches(tbl[i].pat, <<>>) => tbl[i] = Rule("eof", "tok")

InitLive ==
    /\ input \in Inputs
    /\ table \in { tbl \in PlainTables : EofOnlyOnEmpty(tbl) }
    /\ subTable = <<>>
    /\ source = input
    /\ input_iter = <<>>
    /\ InitCursor

\* The engine driven as an iterator: the caller keeps calling next() (a
\* `for` loop or collect()), and a call that was entered runs its loop.
SpecLive ==
    InitLive /\ [][Next]_vars /\ WF_vars(Call("H")) /\ WF_vars(Iterate("H"))

\* ------------------------------------------- two engines on one cursor
\* Rules of a host engine: some closures run the sub-engine.
HostRules ==
    { Rule("ws", "subskip"), Rule("digits", "subtok"),
      Rule("digits", "subskip"), Rule("word", "tok"), Rule("eof", "tok") }

\* Rules of the sub-engine.
SubRules == { Rule("ws", "skip"), Rule("word", "tok"), Rule("eof", "tok") }

SharedChars == {"1", "a", "nl"}

InitShared ==
    /\ input \in TextsUpTo(SharedChars, MaxLen)
    /\ table \in TablesOver(HostRules)
    /\ subTable \in TablesOver(SubRules)
    /\ source = input
    /\ input_iter = <<>>
    /\ InitCursor

NextShared ==
    \/ Call("H")
    \/ Call("S")
    \/ Iterate("H")
    \/ Iterate("S")
    \/ SubCall
    \/ ActionReturn

SpecShared == InitShared /\ [][NextShared]_vars


\* ------------------------------------------------------ lexer!: next()
\* Rules of a lexer! engine: its only sentinel is _, the end of input is the
\* user pattern "$" (compiled to ^$, which like ^\z matches the empty rest
\* only) and whitespace is \s+.
SimpleRules ==
    {Rule(p, a) : p \in {"wildcard", "eof", "wsplus", "digits", "word", "digitsStar"},
                  a \in {"tok", "skip"}}

\* name::new(input): input_iter = input.chars(), idx 0, line 1, col 1.
InitSimple ==
    /\ input \in Inputs
    /\ table \in TablesOver(SimpleRules) \cup {DocTable}
    /\ subTable = <<>>
    /\ source = <<>>
    /\ input_iter = input
    /\ InitCursor

\* &self.input[self.idx..]: the text the rules are tried on.
Rest == ByteSlice(input, idx)

\* Entry of next() (lines 76-77): None once the flag is set; the flag is set
\* by the first call that starts with all input consumed.
SimpleCall ==
    /\ pc["L"] = "idle"
    /\ ~Crashed
    /\ Len(out) < OutCap(input)
    /\ IF empty THEN
            /\ result' = [result EXCEPT !["L"] = Plain("none")]
            /\ UNCHANGED << pc, empty >>
       ELSE
            /\ empty' = (idx = Bytes(input))
            /\ pc' = [pc EXCEPT !["L"] = "loop"]
            /\ UNCHANGED result
    /\ UNCHANGED << input, table, subTable, source, idx, line, col,
                    input_iter, start_idx, pending, out, spans, tried >>

\* One iteration of `loop { $( if let Some(mat) = .. { .. return .. } )* }`
\* (lines 79-108).  The loop has no break: when no rule matches, the
\* iteration changes nothing and the loop starts over.
SimpleIterate ==
    /\ pc["L"] = "loop"
    /\ Len(spans) < SpanCap(input)
    /\ LET r == FirstMatch(table, Rest)
           pat == table[r].pat
           act == table[r].act
           length == MatchEnd(pat, Rest)
           start == <<line, col>>
           after == Walk(input_iter, length, start)
           item == [eng |-> "L", rule |-> r, pat |-> pat,
                    text |-> Take(Rest, MatchChars(pat, Rest)),
                    start |-> start, end |-> EndPos(input_iter, length, start),
                    bytes |-> <<>>]
       IN
       IF r = 0 THEN
            UNCHANGED << idx, line, col, input_iter, pc, out, spans, result >>
       ELSE IF length > Len(input_iter) THEN
            \* self.input_iter.next().unwrap() on an iterator that ran out
            /\ line' = Walk(input_iter, Len(input_iter), start)[1]
            /\ col' = Walk(input_iter, Len(input_iter), start)[2]
            /\ input_iter' = <<>>
            /\ pc' = [pc EXCEPT !["L"] = "idle"]
            /\ result' = [result EXCEPT !["L"] = Plain("unwrap")]
            /\ UNCHANGED << idx, out, spans >>
       ELSE
            /\ line' = after[1]
            /\ col' = after[2]
            /\ input_iter' = Drop(input_iter, length)
            /\ idx' = idx + length
            /\ spans' = Append(spans,
                   [eng |-> "L", rule |-> r, pat |-> pat, act |-> act,
                    at |-> idx, cpos |-> Len(input) - Len(Rest),
                    n |-> Len(item.text), start |-> item.start,
                    end |-> item.end, bytes |-> <<idx, idx + length>>])
            /\ IF Yields(act) THEN
                    /\ out' = Append(out, item)
                    /\ pc' = [pc EXCEPT !["L"] = "idle"]
                    /\ result' = [result EXCEPT !["L"] = Plain("some")]
               ELSE
                    UNCHANGED << out, pc, result >>
    /\ tried' = Evaluated(table, Rest)
    /\ UNCHANGED << input, table, subTable, source, empty, start_idx, pending >>

NextSimple == SimpleCall \/ SimpleIterate

SpecSimple == InitSimple /\ [][NextSimple]_vars


\* =================================================================
\* Properties
\* =================================================================
\* Reference notions, defined on the input text alone.

\* The text consumed so far by the lex_rule! cursor.
Consumed == Take(input, Len(input) - Len(source))

\* Number of newline characters of a text.
Newlines(s) == Cardinality({i \in 1..Len(s) : s[i] = "nl"})

\* Number of characters of a text after its last newline.
SinceNewline(s) ==
    LET nls == {i \in 1..Len(s) : s[i] = "nl"}
    IN IF nls = {} THEN Len(s)
       ELSE Len(s) - (CHOOSE i \in nls : \A j \in nls : j <= i)

\* The 1-based line:column of the character that follows the prefix s.
PosAfter(s) == <<1 + Newlines(s), 1 + SinceNewline(s)>>

\* The scan ran to the end of the input and next() returned None.
ScanComplete == result["H"].kind = "none" /\ source = <<>>

\* The span that really covers match number i: its byte range in the input.
TrueBytes(sp) ==
    <<sp.at, sp.at + Bytes(SubSeq(input, sp.cpos + 1, sp.cpos + sp.n))>>

\* C1: after a scan that ran to exhaustion without failure, the byte ranges
\* of the matched spans (emitted and skipped, in match order) are contiguous:
\* the first starts at byte 0, each next one starts where the previous one
\* ended, and the last ends at the input length.
C1_SpansContiguous ==
    ScanComplete =>
        /\ \A i \in 1..Len(spans) :
              spans[i].bytes[1] = IF i = 1 THEN 0 ELSE spans[i - 1].bytes[2]
        /\ spans # <<>> => spans[Len(spans)].bytes[2] = Bytes(input)

\* C2: in every cursor state, also between two iterations of the loop of
\* one next() call, the stored byte index plus the byte length of the
\* remaining text is the byte length of the input.
C2_IndexPlusRemaining == idx + Bytes(source) = Bytes(input)

\* C4: the eof rule matches at most once in a scan, and only in a state
\* where the remaining text is empty.
C4_EofOnceAtEnd ==
    LET eofs == {i \in 1..Len(spans) : spans[i].pat = "eof"}
    IN /\ Cardinality(eofs) <= 1
       /\ \A i \in eofs : spans[i].cpos = Len(input) /\ spans[i].n = 0

\* C4 witness: the eof rule has fired and returned its token after input
\* was consumed, and a later next() call has returned None without firing
\* it again.
C4_Witness ==
    /\ Len(out) >= 2
    /\ out[Len(out)].pat = "eof"
    /\ result["H"].kind = "none"
    /\ pc["H"] = "idle"

RECURSIVE MatchedChars(_)
\* Number of characters of the matches of a history (of either engine).
MatchedChars(ss) == IF ss = <<>> THEN 0 ELSE Head(ss).n + MatchedChars(Tail(ss))

\* C5: after any sequence of matches, of lex_rule! or of lexer!, the
\* cursor's line is 1 plus the number of newlines consumed and its column
\* is 1 plus the number of characters consumed since the last consumed
\* newline: a match advances line/column by exactly its characters, also
\* when they are several bytes wide.
C5_LineColumn ==
    ~Crashed => <<line, col>> = PosAfter(Take(input, MatchedChars(spans)))

\* C6: the rule that fires at a position is the lowest-index rule of the
\* table whose pattern matches the remaining text there, whatever the match
\* lengths of the rules are.
C6_FirstRuleWins ==
    \A i \in 1..Len(spans) :
        LET rest == Drop(input, spans[i].cpos)
        IN /\ Matches(table[spans[i].rule].pat, rest)
           /\ spans[i].n = MatchChars(table[spans[i].rule].pat, rest)
           /\ \A j \in 1..(spans[i].rule - 1) : ~Matches(table[j].pat, rest)

\* C6 witness: two rules matched at a position with different lengths, and
\* the earlier one, with the shorter match, fired.
C6_Witness ==
    \E i \in 1..Len(spans) :
        LET rest == Drop(input, spans[i].cpos)
        IN /\ spans[i].rule = 1
           /\ Len(table) = 2
           /\ spans[i].n >= 1
           /\ Matches(table[2].pat, rest)
           /\ MatchChars(table[2].pat, rest) > spans[i].n

\* The matches that count as items: those whose closure yields a token.
RECURSIVE TokenSpans(_)
TokenSpans(ss) ==
    IF ss = <<>> THEN <<>>
    ELSE IF Head(ss).act = "tok" THEN <<Head(ss)>> \o TokenSpans(Tail(ss))
    ELSE TokenSpans(Tail(ss))

\* C7: the items returned by next() are exactly the matches whose closure
\* returned a token, one item each, in match order; a match whose closure
\* is `continue` contributes none.
C7_SkipTransparent ==
    LET toks == TokenSpans(spans)
        ordinary == {i \in 1..Len(spans) : spans[i].act = "tok" /\ spans[i].pat # "eof"}
        eofs == {i \in 1..Len(spans) : spans[i].act = "tok" /\ spans[i].pat = "eof"}
    IN /\ Len(out) = Len(toks)
       /\ Len(out) = Cardinality(ordinary) + (IF eofs # {} THEN 1 ELSE 0)
       /\ \A i \in 1..Len(out) :
             /\ out[i].rule = toks[i].rule
             /\ out[i].text = SubSeq(input, toks[i].cpos + 1, toks[i].cpos + toks[i].n)
             /\ table[out[i].rule].act = "tok"

\* C7 witness: a finished scan with a skipped match, an emitted ordinary
\* match and an emitted eof match.
C7_Witness ==
    /\ ScanComplete
    /\ \E i \in 1..Len(spans) : spans[i].act = "skip" /\ spans[i].n > 0
    /\ \E i \in 1..Len(out) : out[i].pat # "eof"
    /\ \E i \in 1..Len(out) : out[i].pat = "eof"

\* C8: a next() call that fails with the unexpected-character error names
\* the first character of the remaining text and its location, line, column
\* and byte offset of that character, and no item is emitted for it; the
\* rule "[0-9]+" on "12a" yields Number(12) and fails on 'a' at 1:3.
C8_UnexpectedCharacter ==
    result["H"].kind = "unexpected" =>
        /\ source # <<>>
        /\ result["H"].c = Head(source)
        /\ <<result["H"].line, result["H"].col>> = PosAfter(Consumed)
        /\ result["H"].idx = Bytes(Consumed)
        /\ (input = <<"1", "2", "a">> /\ table = <<Rule("digits", "tok")>>) =>
              /\ Len(out) = 1
              /\ out[1].text = <<"1", "2">>
              /\ result["H"] = Outcome("unexpected", "a", 1, 3, 2)

\* What the doc example must yield on "123 abc".
DocItems ==
    << [eng |-> "H", rule |-> 2, pat |-> "digits", text |-> <<"1", "2", "3">>,
        start |-> <<1, 1>>, end |-> <<1, 3>>, bytes |-> <<0, 3>>],
       [eng |-> "H", rule |-> 3, pat |-> "word", text |-> <<"a", "b", "c">>,
        start |-> <<1, 5>>, end |-> <<1, 7>>, bytes |-> <<4, 7>>],
       [eng |-> "H", rule |-> 4, pat |-> "eof", text |-> <<>>,
        start |-> <<1, 8>>, end |-> <<1, 8>>, bytes |-> <<7, 7>>] >>

\* C9: every emitted item carries the line:column of its first and of its
\* last matched character (start = end = the current position for the
\* zero-width eof match) and the [start, end) byte offsets of its text in
\* the input; the doc example yields Number(123) at 1:1-1:3 bytes 0-3,
\* Word("abc") at 1:5-1:7 bytes 4-7, EndOfFile at 1:8-1:8 bytes 7-7.
C9_SrcLoc ==
    /\ \A i \in 1..Len(spans) :
          spans[i].act = "tok" =>
              /\ spans[i].start = PosAfter(Take(input, spans[i].cpos))
              /\ spans[i].end =
                    IF spans[i].n = 0 THEN spans[i].start
                    ELSE PosAfter(Take(input, spans[i].cpos + spans[i].n - 1))
              /\ spans[i].bytes = TrueBytes(spans[i])
    /\ (input = DocInput /\ table = DocTable /\ ScanComplete) => out = DocItems

\* C10: every next() call terminates and the sequence of items is finite:
\* every match changes the cursor (it consumes text or sets the empty
\* flag), so that no loop iteration and no next() call can repeat for ever.
C10_EveryMatchProgresses ==
    [][Len(spans') > Len(spans) => <<source, empty>>' # <<source, empty>>]_vars


\* Two matched spans share at least one byte.
Overlap(a, b) ==
    /\ a.bytes[1] < b.bytes[2]
    /\ b.bytes[1] < a.bytes[2]

\* C3: with two engines on one cursor, called in any sequential
\* interleaving (also a host whose closure runs the sub-engine and then
\* yields a token or skips), the shared byte index never decreases, every
\* match computes its span from the byte index as it is stored at that
\* moment (not from one read before an earlier advance), and the spans
\* produced by the two engines never overlap.
C3_SharedCursorMonotone ==
    [][ /\ idx' >= idx
        /\ Len(spans') > Len(spans) => spans'[Len(spans')].bytes[1] = idx
        /\ \A i \in 1..Len(spans') : \A j \in 1..Len(spans') :
              i < j => ~Overlap(spans'[i], spans'[j]) ]_vars

\* C11: lex_rule!: once next() has returned None every later step keeps the
\* result None, runs no rule (tried' = 0 on an iteration), runs no action
\* (no span, no item, no pending closure) and leaves the remaining text,
\* idx, line, col and the empty flag (which is set) as they are.
C11_ExhaustedStable ==
    [][ result["H"].kind = "none" =>
            /\ empty
            /\ result'["H"].kind = "none"
            /\ (pc["H"] = "loop" => tried' = 0)
            /\ UNCHANGED << source, idx, line, col, empty, out, spans,
                            pending >> ]_vars

\* A second call has returned None by the break: no rule was tried on its
\* iteration, and no earlier iteration could have set the flag by a
\* zero-length or skipped match.
C11_Witness ==
    /\ result["H"].kind = "none"
    /\ pc["H"] = "idle"
    /\ tried = 0
    /\ Len(spans) >= 1
    /\ \A i \in 1..Len(spans) : spans[i].n >= 1 /\ spans[i].act = "tok"

\* --------------------------------------------------- lexer!: properties
\* An iteration of the lexer! loop at a position where no rule matches.
Unmatched == pc["L"] = "loop" /\ FirstMatch(table, Rest) = 0

\* C12: lexer!: where the remaining input is non-empty and no rule matches,
\* the running call can end, and it ends with the unexpected-character
\* error that carries the first unmatched character, line, col and idx.
C12_UnmatchedReported ==
    (Unmatched /\ Rest # <<>>) =>
        ENABLED ( /\ SimpleIterate
                  /\ pc'["L"] = "idle"
                  /\ result'["L"] =
                        Outcome("unexpected", Head(Rest), line, col, idx) )

\* The number of returned items that come from an end-of-input rule.
EofTokens(items) ==
    Cardinality({ i \in 1..Len(items) : items[i].pat = "eof" })

\* C13: lexer!: the "$" rule produces its token at most once per scan.
C13_EofAtMostOnce == EofTokens(out) <= 1

\* C14: lexer!: a call that stands at the end of the input with no rule
\* matching the empty rest can return None.
C14_EndReturnsNone ==
    (Unmatched /\ Rest = <<>>) =>
        ENABLED ( /\ SimpleIterate
                  /\ pc'["L"] = "idle"
                  /\ result'["L"].kind = "none" )

\* --------------------------------------------------- lex_rule!: properties
\* C15: lex_rule!: the step that fails with the unexpected-character error
\* changes no cursor field, and from then on every step keeps the remaining
\* text, idx, line, col, the output and the outcome (the first remaining
\* character at the cursor's line, col and idx); the empty flag stays false.
C15_FailureStable ==
    [][ /\ result'["H"].kind = "unexpected" =>
                /\ UNCHANGED << source, idx, line, col, empty, out, spans >>
                /\ ~empty'
                /\ source # <<>>
                /\ result'["H"] =
                      Outcome("unexpected", Head(source), line, col, idx)
        /\ result["H"].kind = "unexpected" =>
                result'["H"] = result["H"] ]_vars

\* A later call has failed again: the first failure came after a skipped
\* match of the same call (idx moved away from start_idx), the later call
\* read start_idx afresh.
C15_Witness ==
    /\ result["H"].kind = "unexpected"
    /\ pc["H"] = "idle"
    /\ Len(spans) >= 1
    /\ spans[Len(spans)].act = "skip"
    /\ spans[Len(spans)].n >= 1
    /\ start_idx["H"] = idx

\* The latest match, when it is non-empty and the advance loop ran through.
LastSpan == spans[Len(spans)]
NonEmptyMatch == ~Crashed /\ Len(spans) >= 1 /\ LastSpan.n >= 1

\* The last character the advance loop of the latest match consumed: the
\* loop runs once per byte of the match and takes one character each time.
LastConsumed == input[LastSpan.cpos + (LastSpan.bytes[2] - LastSpan.bytes[1])]

\* C16 (as stated): for every non-empty match the recorded end is the cursor
\* position after the last consumed character.
C16_EndAfterLast == NonEmptyMatch => LastSpan.end = << line, col >>

\* C16 (amended): for every non-empty match the recorded end is the cursor
\* position before the last consumed character: advancing end over that one
\* character gives the cursor position after the match.
C16_EndBeforeLast ==
    NonEmptyMatch => Walk(<< LastConsumed >>, 1, LastSpan.end) = << line, col >>

\* A returned match of at least two characters, so that end differs from
\* both the start and the position after the match.
C16_Witness ==
    /\ NonEmptyMatch
    /\ LastSpan.n >= 2
    /\ LastSpan.act = "tok"
    /\ LastSpan.end # LastSpan.start

\* The loop stands at its first iteration with nothing left to read.
FirstEmptyIteration == pc["H"] = "loop" /\ source = <<>> /\ ~empty

EofLast == EofTokens(out) = 1 /\ out[Len(out)].pat = "eof"

\* C18: lex_rule!: with `eof => token` the only rule able to match empty
\* text, the eof token is never returned twice and never followed by another
\* item, None is returned only after it, and a scan that has consumed the
\* whole input goes on to return the eof token and then None.
C18_EofEventually ==
    /\ [](EofTokens(out) <= 1)
    /\ [](EofTokens(out) = 1 => out[Len(out)].pat = "eof")
    /\ [](result["H"].kind = "none" => EofLast)
    /\ (source = <<>>) ~> (EofLast /\ result["H"].kind = "none")

\* A scan of a non-empty input with a skipped match ended with the eof
\* token and then None.
C18_Witness ==
    /\ ScanComplete
    /\ EofLast
    /\ Len(out) >= 2
    /\ \E i \in 1..Len(spans) : spans[i].act = "skip" /\ spans[i].n >= 1

\* ------------------------------------------ shared cursor: properties
\* C19: lex_rule!: when the closure of a host rule runs, the cursor is past
\* the host's match: the remaining text starts after it, line and col are
\* those after its last character, idx is the end index of its SrcLoc; the
\* sub-engine reads its start index there, and every match it makes lies at
\* or after the end of the host's match.
C19_ActionAfterAdvance ==
    /\ pc["H"] = "action" =>
            /\ LastSpan.eng = "H"
            /\ LastSpan.bytes = pending.bytes
            /\ source = Drop(input, LastSpan.cpos + LastSpan.n)
            /\ << line, col >> =
                  Walk(pending.text, Len(pending.text), pending.start)
            /\ idx = pending.bytes[2]
    /\ pc["H"] = "await" => start_idx["S"] = pending.bytes[2]
    /\ \A i, j \in 1..Len(spans) :
            (i < j /\ spans[i].eng = "H" /\ RunsSub(spans[i].act)
                   /\ spans[j].eng = "S")
                => spans[j].cpos >= spans[i].cpos + spans[i].n

\* The sub-engine, called from the closure of a non-empty host match, has
\* matched the text that follows it.
C19_Witness ==
    /\ pc["H"] = "await"
    /\ Len(spans) >= 2
    /\ LastSpan.eng = "S"
    /\ LastSpan.n >= 1
    /\ spans[Len(spans) - 1].eng = "H"
    /\ spans[Len(spans) - 1].n >= 1
    /\ LastSpan.cpos = spans[Len(spans) - 1].cpos + spans[Len(spans) - 1].n

\* The number of matches of an eof rule, of any engine, returned or skipped.
EofFired == Cardinality({ i \in 1..Len(spans) : spans[i].pat = "eof" })

\* C20: lex_rule!: the flag is the shared cursor's: once it is set, by
\* whichever engine, no engine matches a rule any more, a loop iteration of
\* any engine tries no rule and ends its call with None, the cursor stays
\* as it is and the flag stays set; eof rules fire at most once in total.
C20_SharedFlag ==
    [][ /\ EofFired <= 1
        /\ empty =>
                /\ empty'
                /\ UNCHANGED << source, idx, line, col, spans >>
                /\ \A e \in {"H", "S"} :
                        (pc[e] = "loop" /\ pc'[e] # "loop") =>
                            /\ pc'[e] = "idle"
                            /\ result'[e].kind = "none"
                            /\ tried' = 0 ]_vars

\* The sub-engine set the flag and fired its eof rule; afterwards the host,
\* whose table has an eof rule too, was called and returned None.
C20_Witness ==
    /\ empty
    /\ input # <<>>
    /\ \A e \in {"H", "S"} : pc[e] = "idle"
    /\ result["H"].kind = "none"
    /\ \E i \in 1..Len(table) : table[i].pat = "eof"
    /\ LastSpan.eng = "S"
    /\ LastSpan.pat = "eof"

====
